---- MODULE Spec2Model ----
(***************************************************************************)
(* Model of the 6-button game-night buzzer (src/main.py, class BuzzerGame): *)
(* a polling loop (BuzzerGame.loop) interleaved with the pin interrupt      *)
(* callbacks _irq_btn and _irq_r.  The callbacks are scheduled callbacks:   *)
(* each runs to completion between two steps of the polling loop, and no    *)
(* callback pre-empts another.  Time is the value of time.ticks_ms(); it    *)
(* advances only where the code sleeps.  Sub-millisecond sleeps             *)
(* (time.sleep_us) are below the resolution of ticks_ms and count as 0.     *)
(***************************************************************************)
EXTENDS Integers, Sequences, FiniteSets, TLC

\* ---------------------------------------------------------------- bounds
\* number of contestant channels that are wired (len(BTN_PINS) in the source
\* is 6; the round logic is the same for every N >= 1)
NumButtons == 2
\* number of external inputs of one run: button edges, reset-switch
\* transitions and idle periods
MaxInputs == 3
\* contact bounce of the reset switch lasts at most this long after a
\* physical transition
BounceMs == 5
\* idle iterations of the polling loop between two inputs: a short and a
\* long idle period
ShortIdle == 8
LongIdle == 40
\* iterations of the wait-for-release loop while the switch is held
HoldIterations == 16
MaxIdx == 7

\* ------------------------------------------------------- program constants
DEBOUNCE_MS == 80
TIMEOUT_S == 8
RESET_COOLDOWN_MS == 400
LOOP_SLEEP_MS == 10
RELEASE_SLEEP_MS == 5
CLEAR_DELAY_MS == 2
VOLUME_DUTY == 32768
GOODBYE_MS == 300
MSG_HOLD_MS == 5000
None == -1
\* ticks_ms when the constructor returns
BootMs == 400

C5 == 523
D5 == 587
E5 == 659
F5 == 698
G5 == 784
A5 == 880
B5 == 988
C6 == 1047
D6 == 1175
E6 == 1319
F6 == 1397

TEAM_NAMES == <<"Team 1", "Team 2", "Team 3", "Team 4", "Team 5", "Team 6">>

START_CHIME == << <<C5, 90, 10>>, <<E5, 90, 10>>, <<G5, 120, 0>> >>

MELODIES ==
  << << <<E5, 120, 15>>, <<G5, 120, 15>>, <<C6, 160, 0>> >>,
     << <<C6, 120, 15>>, <<G5, 120, 15>>, <<E5, 160, 0>> >>,
     << <<D5, 100, 10>>, <<F5, 100, 10>>, <<A5, 140, 0>> >>,
     << <<F5, 100, 10>>, <<A5, 100, 10>>, <<D6, 140, 0>> >>,
     << <<G5, 100, 10>>, <<B5, 100, 10>>, <<E6, 140, 0>> >>,
     << <<A5, 100, 10>>, <<C6, 100, 10>>, <<F6, 140, 0>> >> >>

DEFAULT_MELODY == << <<C6, 150, 0>> >>

\* the numbers of whole idle iterations of the polling loop, and of whole
\* iterations of the wait-for-release loop, that pass between two external
\* inputs
IdleRuns == {ShortIdle, LongIdle}
HoldRuns == {HoldIterations}

Buttons == 0 .. NumButtons - 1

\* ------------------------------------------------------------------ state
VARIABLES
  now,                 \* time.ticks_ms()
  pc,                  \* position of the polling loop (source line)
  caller,              \* call site of the running reset_round
  led_i,               \* loop index of _leds_all_off
  loop_now,            \* local variable now of loop()
  round_open, winner_idx, win_ts, last_edge, last_r,
  reset_requested, last_reset_handled,
  leds,                \* value of each LED pin
  lcd,                 \* text of the two display rows
  duty,                \* PWM duty of the buzzer pin (0 = silent)
  p_pc,                \* position inside Buzzer.play / Buzzer.tone
  p_seq,               \* the sequence Buzzer.play was called with
  note_i,              \* index of the note Buzzer.play is at
  d_pc,                \* position inside _declare_winner run line by line
  d_idx,               \* its argument idx
  d_i,                 \* its loop variable i (line 222)
  d_name,              \* its local name (line 228)
  d_melody,            \* its local melody (line 233)
  l_pc,                \* position of a clear / set_cursor / write sequence
  l_label,             \* the label it shows
  l_row,               \* the row it shows it on
  l_k,                 \* number of characters written so far
  l_col,               \* the column argument of set_cursor
  i_pc,                \* number of steps of I2cLcd.__init__ done
  bus_log,             \* every byte written to the bus so far
  c_text, c_width,     \* the arguments of a call of center
  c_out,               \* <<>> before it returns, then <<its result>>
  b_kind,              \* the running transfer: _send_byte, _send_nibble
                       \* or a lone _write_byte
  b_val, b_rs,         \* its arguments
  b_pc,                \* number of bus writes it has made (4 = finished)
  wires,               \* the bytes it has written to the bus
  hd_e,                \* display controller: level of the strobe line
  hd_hi,               \* display controller: high nibble waiting for the low
  hd_ac,               \* display controller: address counter
  hd_ddram,            \* display controller: display data RAM
  t_pc,                \* toggle program: position of its polling loop
  pending_idx,         \* toggle program: the mailbox
  t_idx,               \* toggle program: local idx of loop()
  led_state,           \* toggle program: wanted state of each LED
  showing_last,        \* toggle program: the "last pressed" text is up
  msg_deadline,        \* toggle program: when to return to READY
  i2c_ok,              \* the display answers on the I2C bus
  btnR,                \* level of the reset pin (0 = pressed)
  btnR_ts,             \* time of the last transition of the reset switch
  inputs_left,         \* external inputs still to come
  edge,                \* the most recent callback: channel, time, outcome
  prev_edge,           \* per channel: time and outcome of its latest edge
  n_press,             \* physical presses of the reset switch so far
  n_btn_reset,         \* reset_round executions started from line 263
  btn_reset_at,        \* start time of the latest of them
  btn_reset_prev,      \* start time of the one before
  n_auto,              \* reset_round executions started from line 268 since
                       \* the latest winner declaration
  stale_request,       \* the pending reset request was seen by line 258
                       \* while the cooldown was running
  n_accept,            \* toggle program: presses the callback has accepted
  mail_id,             \* number of the press that is in the mailbox, 0 if none
  read_id,             \* number of the press the loop has read last
  lost,                \* a press was erased from the mailbox unread
  proc_at,             \* time line 148 ran last, None if it never did
  holds,               \* runs of line 148 without the display going READY
                       \* in between, up to the last one
  n_ready              \* runs of line 152 since line 148 ran last

\* the buzzer and the playback in progress
sound == <<duty, p_pc, p_seq, note_i>>

\* a _declare_winner call in progress
decl == <<d_pc, d_idx, d_i, d_name, d_melody>>

\* the display driver and the display controller behind the bus
fmt == <<c_text, c_width, c_out>>
panel == <<l_pc, l_label, l_row, l_k, l_col, i_pc, bus_log, fmt,
           b_kind, b_val, b_rs, b_pc, wires, hd_e, hd_hi, hd_ac, hd_ddram>>

\* the toggle program, and the record of its mailbox
tobs == <<proc_at, holds, n_ready>>
toggle == <<t_pc, pending_idx, t_idx, led_state, showing_last, msg_deadline,
            n_accept, mail_id, read_id, lost, tobs>>

\* state of the program
game == <<now, pc, caller, led_i, loop_now, round_open, winner_idx, win_ts,
          last_edge, last_r, reset_requested, last_reset_handled, leds, lcd,
          sound, decl, panel, toggle>>

\* state of the environment: the reset switch, the display bus and the
\* inputs to come
env == <<btnR, btnR_ts, inputs_left, i2c_ok>>

\* record of what has happened, read by the properties only
obs == <<edge, prev_edge, n_press, n_btn_reset, btn_reset_at, btn_reset_prev,
         n_auto, stale_request>>

vars == <<game, env, obs>>

\* the reset channel, numbered after the contestant channels
R == NumButtons
Channels == 0 .. NumButtons

\* ---------------------------------------------------------------- helpers
LED_ACTIVE_HIGH == TRUE

\* time.ticks_diff(a, b)
ticks_diff(a, b) == a - b

\* a sleep of the code: the clock advances
Advance(ms) == now' = now + ms

\* one external input is consumed
Input == inputs_left > 0 /\ inputs_left' = inputs_left - 1

\* pin value written by _led_on / _led_off
LedOnValue == IF LED_ACTIVE_HIGH THEN 1 ELSE 0
LedOffValue == IF LED_ACTIVE_HIGH THEN 0 ELSE 1

LedIsOn(i) == leds[i] = LedOnValue

\* time Buzzer.play(seq) blocks: tone(f, d) sleeps d, silence(g) sleeps g
RECURSIVE PlayMs(_)
PlayMs(seq) ==
  IF seq = <<>> THEN 0
  ELSE LET n == Head(seq)
       IN  n[2] + (IF n[3] # 0 THEN n[3] ELSE 0) + PlayMs(Tail(seq))

\* name and melody chosen by _declare_winner
WinnerName(idx) ==
  IF idx < Len(TEAM_NAMES) THEN TEAM_NAMES[idx + 1]
  ELSE "Team " \o ToString(idx + 1)

\* the melody lookup with the first team's melody in place of the default
WinnerMelody_no_default(idx) ==
  IF idx < Len(MELODIES) THEN MELODIES[idx + 1] ELSE MELODIES[1]

WinnerMelody(idx) == IF idx < Len(MELODIES) THEN MELODIES[idx + 1] ELSE DEFAULT_MELODY

\* display rows written by lcd_ready and lcd_winner
BlankRow == <<>>
ReadyRows == <<  <<"READY">>, <<"Press a button">>  >>
WinnerRows(name) == <<  <<name, " WINS!">>, <<"Wait/Reset to play">>  >>

\* the program has not ended
Running == pc \notin {"crashed", "exit"}

\* the record kept of a callback on channel ch that ran at time t
EdgeRecord(ch, t, acc, since) ==
  [ch |-> ch, at |-> t, acc |-> acc, since |-> since,
   prev_at |-> prev_edge[ch].at, prev_acc |-> prev_edge[ch].acc]

LogEdge(ch, acc, since) ==
  /\ edge' = EdgeRecord(ch, now, acc, since)
  /\ prev_edge' = [prev_edge EXCEPT ![ch] = [at |-> now, acc |-> acc]]

\* ------------------------------------------------------ display driver
LCD_COLS == 16
MASK_RS == 1
MASK_RW == 2
MASK_E == 4
MASK_BL == 8
CMD_CLEAR == 1
CMD_SET_DDRAM == 128

\* the printable ASCII characters in code order: from the space (32) to the
\* underscore (95), and from the small a (97) to the tilde (126)
ASCII_32 ==
  " !\"#$%&'()*+,-./0123456789:;<=>?@ABCDEFGHIJKLMNOPQRSTUVWXYZ[\\]^_"
ASCII_97 ==
  "abcdefghijklmnopqrstuvwxyz{|}~"
Code32 == 32
Code97 == 97

\* ord(c) and its inverse, the character the controller shows for a code
Char(str, i) == SubSeq(str, i, i)
Index(str, c) == CHOOSE i \in 1 .. Len(str) : Char(str, i) = c
ord(c) ==
  IF \E i \in 1 .. Len(ASCII_32) : Char(ASCII_32, i) = c
  THEN Code32 - 1 + Index(ASCII_32, c)
  ELSE Code97 - 1 + Index(ASCII_97, c)
Glyph(code) ==
  IF code < Code97 THEN Char(ASCII_32, code - Code32 + 1)
  ELSE Char(ASCII_97, code - Code97 + 1)

\* " " * n
RECURSIVE Spaces(_)
Spaces(n) == IF n <= 0 THEN "" ELSE " " \o Spaces(n - 1)

\* center with the odd space put on the left
center_pad_rounds_up(text, width) ==
  IF Len(text) >= width THEN SubSeq(text, 1, width)
  ELSE LET pad == (width - Len(text) + 1) \div 2
       IN  Spaces(pad) \o text \o Spaces(width - Len(text) - pad)

\* center(text, width), lines 95-98
center(text, width) ==
  IF Len(text) >= width THEN SubSeq(text, 1, width)
  ELSE LET pad == (width - Len(text)) \div 2
       IN  Spaces(pad) \o text \o Spaces(width - Len(text) - pad)

\* v & m, v | m and v & ~m for a mask m of one bit
Bit(v, m) == (v \div m) % 2
BitOr(v, m) == IF Bit(v, m) = 1 THEN v ELSE v + m
BitClear(v, m) == IF Bit(v, m) = 1 THEN v - m ELSE v

\* _write_byte(val), line 75: the byte put on the bus, self.bl = MASK_BL
write_byte(val) == BitOr(val, MASK_BL)

\* _pulse_e(data), line 76: the two bus writes
pulse_e(data) ==
  <<write_byte(BitOr(data, MASK_E)), write_byte(BitClear(data, MASK_E))>>

\* _send_nibble(nibble, rs), lines 77-80: the two bus writes
send_nibble(nibble, rs) ==
  LET shifted == (nibble * 16) % 256
      data == shifted - (shifted % 16)
  IN  pulse_e(IF rs # 0 THEN BitOr(data, MASK_RS) ELSE data)

\* _send_byte with the low nibble sent first
send_byte_low_first(val, rs) ==
  send_nibble(val % 16, rs) \o send_nibble(val \div 16, rs)

\* _send_byte(val, rs), line 81: the four bus writes
send_byte(val, rs) ==
  send_nibble(val \div 16, rs) \o send_nibble(val % 16, rs)

\* I2cLcd.__init__, lines 62-72: each step is a transfer (its kind and its
\* value) and the sleep that follows it, in ms (150 us count as 0; the
\* clear is followed by the 2 ms of command and the 2 ms of line 70)
INIT_SEQ_on_before_clear ==
  << <<"raw", 0, 50>>, <<"nibble", 3, 5>>, <<"nibble", 3, 0>>,
     <<"nibble", 3, 0>>, <<"nibble", 2, 0>>, <<"byte", 40, 0>>,
     <<"byte", 8, 0>>, <<"byte", 12, 0>>, <<"byte", 1, 4>>,
     <<"byte", 6, 0>> >>

INIT_SEQ ==
  << <<"raw", 0, 50>>, <<"nibble", 3, 5>>, <<"nibble", 3, 0>>,
     <<"nibble", 3, 0>>, <<"nibble", 2, 0>>, <<"byte", 40, 0>>,
     <<"byte", 8, 0>>, <<"byte", 1, 4>>, <<"byte", 6, 0>>,
     <<"byte", 12, 0>> >>

\* no call of center is being followed
FmtIdle ==
  /\ c_text = ""
  /\ c_width = 0
  /\ c_out = <<>>

\* set_cursor with the rows one after the other in the display RAM
row_offsets_linear == <<0, LCD_COLS, 2 * LCD_COLS, 3 * LCD_COLS>>

\* set_cursor, line 90
row_offsets == <<0, 64, 0 + LCD_COLS, 64 + LCD_COLS>>

\* set_cursor that sends the row base whatever the column
set_cursor_cmd_ignores_col(col, row) ==
  BitOr(row_offsets[row + 1], CMD_SET_DDRAM)

\* set_cursor, line 91: the command byte 0x80 | (row_offsets[row] + col)
set_cursor_cmd(col, row) ==
  BitOr(row_offsets[row + 1] + col, CMD_SET_DDRAM)

\* the controller in the 2-line mode chosen by command 0x28, line 66: each
\* line has 40 cells, the second line starts at address 0x40, and a line
\* shows its first LCD_COLS cells
LineCells == 40
Line2Base == 64
DdramAddrs == (0 .. LineCells - 1) \cup (Line2Base .. Line2Base + LineCells - 1)
LineBase(r) == IF r = 0 THEN 0 ELSE Line2Base

\* the address counter after a data write (entry mode 0x06, line 71)
NextAc(a) ==
  IF a = LineCells - 1 THEN Line2Base
  ELSE IF a = Line2Base + LineCells - 1 THEN 0
  ELSE a + 1

\* the character shown at row r, column c
Grid(r, c) == Glyph(hd_ddram[LineBase(r) + c])

\* the display RAM that shows text0 on the first and text1 on the second row
DdramOf(text0, text1) ==
  [a \in DdramAddrs |->
     IF a < Len(text0) THEN ord(Char(text0, a + 1))
     ELSE IF a >= Line2Base /\ a - Line2Base < Len(text1)
          THEN ord(Char(text1, a - Line2Base + 1))
          ELSE ord(" ")]

\* ------------------------------------------------------------------- Init
GameInit ==
  /\ now = BootMs
  /\ pc = "L256"
  /\ caller = "none"
  /\ led_i = 0
  /\ loop_now = 0
  /\ round_open = TRUE
  /\ winner_idx = None
  /\ win_ts = 0
  /\ last_edge = [i \in Buttons |-> 0]
  /\ last_r = 0
  /\ reset_requested = FALSE
  /\ last_reset_handled = 0
  /\ leds = [i \in Buttons |-> LedOffValue]
  /\ lcd = ReadyRows

\* Buzzer.__init__, lines 117-120: silent, nothing playing
SoundInit ==
  /\ duty = 0
  /\ p_pc = "idle"
  /\ p_seq = <<>>
  /\ note_i = 0

\* no _declare_winner call is in progress
DeclInit ==
  /\ d_pc = "idle"
  /\ d_idx = None
  /\ d_i = 0
  /\ d_name = ""
  /\ d_melody = <<>>

\* the switch is up, the display answers
EnvInit ==
  /\ i2c_ok = TRUE
  /\ btnR = 1
  /\ btnR_ts = 0
  /\ inputs_left = MaxInputs

\* nothing has happened yet
ObsInit ==
  /\ edge = [ch |-> None, at |-> 0, acc |-> FALSE, since |-> 0,
             prev_at |-> None, prev_acc |-> FALSE]
  /\ prev_edge = [c \in Channels |-> [at |-> None, acc |-> FALSE]]
  /\ n_press = 0
  /\ n_btn_reset = 0
  /\ btn_reset_at = None
  /\ btn_reset_prev = None
  /\ n_auto = 0
  /\ stale_request = FALSE

\* I2cLcd.__init__ and lcd_ready, lines 156 and 181: the READY text is in
\* the display, no transfer is running
PanelInit ==
  /\ l_pc = "done"
  /\ l_label = ""
  /\ l_row = 0
  /\ l_k = 0
  /\ l_col = 0
  /\ i_pc = Len(INIT_SEQ)
  /\ bus_log = <<>>
  /\ FmtIdle
  /\ b_kind = "byte"
  /\ b_val = 0
  /\ b_rs = 0
  /\ b_pc = 4
  /\ wires = <<>>
  /\ hd_e = 0
  /\ hd_hi = None
  /\ hd_ac = row_offsets[2] + LCD_COLS
  /\ hd_ddram = DdramOf(center("READY", LCD_COLS),
                        center("Press a button", LCD_COLS))

\* the toggle program is not running
ToggleIdle ==
  /\ t_pc = "idle"
  /\ pending_idx = None
  /\ t_idx = None
  /\ led_state = [i \in Buttons |-> FALSE]
  /\ showing_last = FALSE
  /\ msg_deadline = 0
  /\ n_accept = 0
  /\ mail_id = 0
  /\ read_id = 0
  /\ lost = FALSE
  /\ proc_at = None
  /\ holds = 0
  /\ n_ready = 0

Init ==
  GameInit /\ SoundInit /\ DeclInit /\ EnvInit /\ ObsInit /\ PanelInit
  /\ ToggleIdle

\* ------------------------------------------------ interrupt callbacks
\* _declare_winner(idx), lines 216-237
declare_winner(idx) ==
  /\ round_open' = FALSE
  /\ winner_idx' = idx
  /\ win_ts' = now
  /\ leds' = [i \in Buttons |-> IF i = idx THEN LedOnValue ELSE LedOffValue]
  /\ IF i2c_ok
     THEN /\ lcd' = WinnerRows(WinnerName(idx))
          /\ Advance(CLEAR_DELAY_MS + PlayMs(WinnerMelody(idx)))
     ELSE \* lcd_winner raises OSError out of the callback: lines 230-237
          \* do not run
          UNCHANGED <<now, lcd>>

\* _irq_btn without the test of round_open
irq_btn_always_declares(idx) ==
  /\ IF ticks_diff(now, last_edge[idx]) < DEBOUNCE_MS
     THEN UNCHANGED <<now, round_open, winner_idx, win_ts, last_edge, leds, lcd>>
     ELSE /\ last_edge' = [last_edge EXCEPT ![idx] = now]
          /\ declare_winner(idx)
  /\ UNCHANGED <<pc, caller, led_i, loop_now, last_r, reset_requested,
                 last_reset_handled, sound, decl, panel, toggle>>

\* _irq_btn(idx), lines 200-206
irq_btn(idx) ==
  /\ IF ticks_diff(now, last_edge[idx]) < DEBOUNCE_MS
     THEN UNCHANGED <<now, round_open, winner_idx, win_ts, last_edge, leds, lcd>>
     ELSE /\ last_edge' = [last_edge EXCEPT ![idx] = now]
          /\ IF round_open
             THEN declare_winner(idx)
             ELSE UNCHANGED <<now, round_open, winner_idx, win_ts, leds, lcd>>
  /\ UNCHANGED <<pc, caller, led_i, loop_now, last_r, reset_requested,
                 last_reset_handled, sound, decl, panel, toggle>>

\* _irq_r that stamps rejected edges too
irq_r_restamps ==
  /\ last_r' = now
  /\ reset_requested' = (reset_requested \/ ticks_diff(now, last_r) >= DEBOUNCE_MS)
  /\ UNCHANGED <<now, pc, caller, led_i, loop_now, round_open, winner_idx,
                 win_ts, last_edge, last_reset_handled, leds, lcd, sound, decl, panel, toggle>>

\* _irq_r without the debounce test
irq_r_no_debounce ==
  /\ last_r' = now
  /\ reset_requested' = TRUE
  /\ UNCHANGED <<now, pc, caller, led_i, loop_now, round_open, winner_idx,
                 win_ts, last_edge, last_reset_handled, leds, lcd, sound, decl, panel, toggle>>

\* _irq_r(pin), lines 208-213
irq_r ==
  /\ IF ticks_diff(now, last_r) < DEBOUNCE_MS
     THEN UNCHANGED <<last_r, reset_requested>>
     ELSE /\ last_r' = now
          /\ reset_requested' = TRUE
  /\ UNCHANGED <<now, pc, caller, led_i, loop_now, round_open, winner_idx,
                 win_ts, last_edge, last_reset_handled, leds, lcd, sound, decl, panel, toggle>>

\* a falling edge on contestant button idx (IRQ_FALLING, line 187)
ButtonEdge(idx) ==
  /\ Running
  /\ Input
  /\ irq_btn(idx)
  /\ LogEdge(idx, last_edge'[idx] # last_edge[idx],
             ticks_diff(now, last_edge[idx]))
  /\ n_auto' = IF round_open' # round_open THEN 0 ELSE n_auto
  /\ UNCHANGED <<i2c_ok, btnR, btnR_ts, n_press, n_btn_reset, btn_reset_at,
                 btn_reset_prev, stale_request>>

\* the reset switch is pressed: the pin goes low and the callback fires
\* (IRQ_FALLING, line 188)
ResetPress ==
  /\ Running
  /\ btnR = 1
  /\ Input
  /\ btnR' = 0
  /\ btnR_ts' = now
  /\ irq_r
  /\ LogEdge(R, last_r' # last_r, ticks_diff(now, last_r))
  /\ n_press' = n_press + 1
  /\ stale_request' = (stale_request /\ last_r' = last_r)
  /\ UNCHANGED <<i2c_ok, n_btn_reset, btn_reset_at, btn_reset_prev, n_auto>>

\* the reset switch is released: a rising edge, no callback
ResetRelease ==
  /\ btnR = 0
  /\ btnR' = 1
  /\ btnR_ts' = now
  /\ UNCHANGED <<game, inputs_left, i2c_ok, obs>>

\* contact bounce of the reset switch: one more falling edge shortly after
\* a press or a release, the level ends where it was
ResetBounce ==
  /\ Running
  /\ n_press > 0
  /\ ticks_diff(now, btnR_ts) <= BounceMs
  /\ Input
  /\ irq_r
  /\ LogEdge(R, last_r' # last_r, ticks_diff(now, last_r))
  /\ stale_request' = (stale_request /\ last_r' = last_r)
  /\ UNCHANGED <<i2c_ok, btnR, btnR_ts, n_press, n_btn_reset, btn_reset_at,
                 btn_reset_prev, n_auto>>

\* the display stops answering: from now on i2c.writeto raises OSError
I2cFault ==
  /\ Running
  /\ i2c_ok
  /\ Input
  /\ i2c_ok' = FALSE
  /\ UNCHANGED <<game, btnR, btnR_ts, obs>>

\* main(), lines 276-282: Ctrl-C ends loop(); the handler clears the
\* display, shows "Goodbye!", clears again and calls buzzer.deinit().  A
\* display call that raises inside the handler ends the handler there.
KeyboardInterrupt ==
  /\ Running
  /\ Input
  /\ IF i2c_ok
     THEN /\ lcd' = <<BlankRow, BlankRow>>
          /\ Advance(CLEAR_DELAY_MS + GOODBYE_MS + CLEAR_DELAY_MS)
          /\ duty' = 0
     ELSE UNCHANGED <<now, lcd, duty>>
  /\ pc' = "exit"
  /\ UNCHANGED <<caller, led_i, loop_now, round_open, winner_idx, win_ts,
                 last_edge, last_r, reset_requested, last_reset_handled, leds>>
  /\ UNCHANGED <<p_pc, p_seq, note_i, decl, panel, toggle>>
  /\ UNCHANGED <<i2c_ok, btnR, btnR_ts, obs>>

\* an exception that nothing catches leaves loop() and main(): only
\* KeyboardInterrupt is handled, line 277
Uncaught ==
  /\ pc' = "crashed"
  /\ UNCHANGED <<now, lcd>>

\* ------------------------------------------------------- reset_round
\* line 246: self.round_open = True
reset_round_open ==
  /\ pc = "R246"
  /\ round_open' = TRUE
  /\ pc' = "R247"
  /\ UNCHANGED <<now, caller, led_i, loop_now, winner_idx, win_ts, last_edge,
                 last_r, reset_requested, last_reset_handled, leds, lcd, sound, decl, panel, toggle>>
  /\ UNCHANGED <<env, obs>>

\* line 247: self.winner_idx = None
reset_round_winner ==
  /\ pc = "R247"
  /\ winner_idx' = None
  /\ led_i' = 0
  /\ pc' = "R248"
  /\ UNCHANGED <<now, caller, loop_now, round_open, win_ts, last_edge, last_r,
                 reset_requested, last_reset_handled, leds, lcd, sound, decl, panel, toggle>>
  /\ UNCHANGED <<env, obs>>

\* line 248: self._leds_all_off(), lines 195-197, one LED per step
leds_all_off ==
  /\ pc = "R248"
  /\ IF led_i < NumButtons
     THEN /\ leds' = [leds EXCEPT ![led_i] = LedOffValue]
          /\ led_i' = led_i + 1
          /\ pc' = "R248"
     ELSE /\ pc' = "R249"
          /\ UNCHANGED <<leds, led_i>>
  /\ UNCHANGED <<now, caller, loop_now, round_open, winner_idx, win_ts,
                 last_edge, last_r, reset_requested, last_reset_handled, lcd,
                 sound, decl, panel, toggle>>
  /\ UNCHANGED <<env, obs>>

\* line 249, lcd_ready line 101: lcd.clear()
lcd_ready_clear ==
  /\ pc = "R249"
  /\ IF i2c_ok
     THEN /\ lcd' = <<BlankRow, BlankRow>>
          /\ Advance(CLEAR_DELAY_MS)
          /\ pc' = "R249a"
     ELSE Uncaught
  /\ UNCHANGED <<caller, led_i, loop_now, round_open, winner_idx, win_ts,
                 last_edge, last_r, reset_requested, last_reset_handled, leds, sound, decl, panel, toggle>>
  /\ UNCHANGED <<env, obs>>

\* lcd_ready line 102: first row
lcd_ready_row0 ==
  /\ pc = "R249a"
  /\ IF i2c_ok
     THEN /\ lcd' = <<ReadyRows[1], lcd[2]>>
          /\ pc' = "R249b"
          /\ UNCHANGED now
     ELSE Uncaught
  /\ UNCHANGED <<caller, led_i, loop_now, round_open, winner_idx, win_ts,
                 last_edge, last_r, reset_requested, last_reset_handled, leds, sound, decl, panel, toggle>>
  /\ UNCHANGED <<env, obs>>

\* lcd_ready line 103: second row
lcd_ready_row1 ==
  /\ pc = "R249b"
  /\ IF i2c_ok
     THEN /\ lcd' = <<lcd[1], ReadyRows[2]>>
          /\ pc' = "R251"
          /\ UNCHANGED now
     ELSE Uncaught
  /\ UNCHANGED <<caller, led_i, loop_now, round_open, winner_idx, win_ts,
                 last_edge, last_r, reset_requested, last_reset_handled, leds, sound, decl, panel, toggle>>
  /\ UNCHANGED <<env, obs>>

\* line 251: self._play_start_chime(), then return to the call site
play_start_chime ==
  /\ pc = "R251"
  /\ Advance(PlayMs(START_CHIME))
  /\ pc' = IF caller = "L263" THEN "L266" ELSE "L270"
  /\ UNCHANGED <<caller, led_i, loop_now, round_open, winner_idx, win_ts,
                 last_edge, last_r, reset_requested, last_reset_handled, leds,
                 lcd, sound, decl, panel, toggle>>
  /\ UNCHANGED <<env, obs>>

reset_round ==
  \/ reset_round_open
  \/ reset_round_winner
  \/ leds_all_off
  \/ lcd_ready_clear
  \/ lcd_ready_row0
  \/ lcd_ready_row1
  \/ play_start_chime

InResetRound == pc \in {"R246", "R247", "R248", "R249", "R249a", "R249b", "R251"}

\* ------------------------------------------------------------- loop()
\* line 256: if self.reset_requested
loop_reset_requested ==
  /\ pc = "L256"
  /\ pc' = IF reset_requested THEN "L257" ELSE "L266"
  /\ UNCHANGED <<now, caller, led_i, loop_now, round_open, winner_idx, win_ts,
                 last_edge, last_r, reset_requested, last_reset_handled, leds,
                 lcd, sound, decl, panel, toggle>>
  /\ UNCHANGED <<env, obs>>

\* lines 257-258: now = ticks_ms(); cooldown test
loop_cooldown ==
  /\ pc = "L257"
  /\ loop_now' = now
  /\ pc' = IF ticks_diff(now, last_reset_handled) >= RESET_COOLDOWN_MS
           THEN "L259" ELSE "L266"
  /\ UNCHANGED <<now, caller, led_i, round_open, winner_idx, win_ts, last_edge,
                 last_r, reset_requested, last_reset_handled, leds, lcd, sound, decl, panel, toggle>>
  /\ stale_request' = (stale_request \/ pc' = "L266")
  /\ UNCHANGED <<env, edge, prev_edge, n_press, n_btn_reset, btn_reset_at,
                 btn_reset_prev, n_auto>>

\* lines 259-260: while self.btnR.value() == 0: sleep_ms(5)
\* (k iterations in a row find the switch still pressed)
loop_wait_release ==
  /\ pc = "L259"
  /\ IF btnR = 0
     THEN /\ Input
          /\ \E k \in HoldRuns : Advance(k * RELEASE_SLEEP_MS)
          /\ pc' = "L259"
     ELSE /\ pc' = "L261"
          /\ UNCHANGED <<now, inputs_left>>
  /\ UNCHANGED <<caller, led_i, loop_now, round_open, winner_idx, win_ts,
                 last_edge, last_r, reset_requested, last_reset_handled, leds,
                 lcd, sound, decl, panel, toggle>>
  /\ UNCHANGED <<i2c_ok, btnR, btnR_ts, obs>>

\* line 261: self.last_reset_handled = now
loop_last_reset_handled ==
  /\ pc = "L261"
  /\ last_reset_handled' = loop_now
  /\ pc' = "L262"
  /\ UNCHANGED <<now, caller, led_i, loop_now, round_open, winner_idx, win_ts,
                 last_edge, last_r, reset_requested, leds, lcd, sound, decl, panel, toggle>>
  /\ UNCHANGED <<env, obs>>

\* lines 262-263: self.reset_requested = False; self.reset_round()
loop_reset_round ==
  /\ pc = "L262"
  /\ reset_requested' = FALSE
  /\ caller' = "L263"
  /\ pc' = "R246"
  /\ UNCHANGED <<now, led_i, loop_now, round_open, winner_idx, win_ts,
                 last_edge, last_r, last_reset_handled, leds, lcd, sound, decl, panel, toggle>>
  /\ n_btn_reset' = n_btn_reset + 1
  /\ btn_reset_at' = now
  /\ btn_reset_prev' = btn_reset_at
  /\ stale_request' = FALSE
  /\ UNCHANGED <<env, edge, prev_edge, n_press, n_auto>>

\* the timeout test without the test of the round state
TimeoutDue_age_only(t) == ticks_diff(t, win_ts) >= TIMEOUT_S * 1000

\* the test of lines 266-267 at time t
TimeoutDue(t) ==
  /\ ~round_open
  /\ winner_idx # None
  /\ ticks_diff(t, win_ts) >= TIMEOUT_S * 1000

\* lines 266-268: auto-reset after winner timeout
loop_timeout ==
  /\ pc = "L266"
  /\ IF TimeoutDue(now)
     THEN /\ caller' = "L268"
          /\ pc' = "R246"
          /\ n_auto' = n_auto + 1
     ELSE /\ pc' = "L270"
          /\ UNCHANGED <<caller, n_auto>>
  /\ UNCHANGED <<now, led_i, loop_now, round_open, winner_idx, win_ts,
                 last_edge, last_r, reset_requested, last_reset_handled, leds,
                 lcd, sound, decl, panel, toggle>>
  /\ UNCHANGED <<env, edge, prev_edge, n_press, n_btn_reset, btn_reset_at,
                 btn_reset_prev, stale_request>>

\* the tests of lines 256-258 and of lines 266-267 at time t
CooldownOver(t) == ticks_diff(t, last_reset_handled) >= RESET_COOLDOWN_MS
ResetDue(t) == reset_requested /\ CooldownOver(t)

\* smallest number of sleeps of line 270 after which ms milliseconds are over
Sleeps(ms) ==
  IF ms <= LOOP_SLEEP_MS THEN 1
  ELSE (ms + LOOP_SLEEP_MS - 1) \div LOOP_SLEEP_MS

\* k iterations from line 270 on are idle: after each sleep but the last,
\* the tests of lines 258 and 266-267 are false (both tests are monotone in
\* time, so it is enough to look at the last of these iterations)
IdleRun(k) ==
  k > 1 => LET t == now + (k - 1) * LOOP_SLEEP_MS
           IN  ~ResetDue(t) /\ ~TimeoutDue(t)

\* number of iterations until the loop has work to do, 0 if it never has
WorkIn ==
  LET r == IF reset_requested
           THEN Sleeps(RESET_COOLDOWN_MS - ticks_diff(now, last_reset_handled))
           ELSE 0
      w == IF ~round_open /\ winner_idx # None
           THEN Sleeps(TIMEOUT_S * 1000 - ticks_diff(now, win_ts))
           ELSE 0
  IN  IF r = 0 THEN w ELSE IF w = 0 THEN r ELSE IF r < w THEN r ELSE w

\* line 270: time.sleep_ms(10), and the idle iterations that follow it:
\* either no input arrives until the loop has work again, or the next
\* input arrives after one of the idle periods of IdleRuns.  An idle
\* iteration with a reset request pending runs line 257.  With no input
\* left and no work to come, the loop keeps iterating but nothing reads the
\* clock any more, and its value is no longer followed.
loop_sleep ==
  /\ pc = "L270"
  /\ \/ \E k \in IdleRuns \cup {WorkIn} :
          /\ k > 0
          /\ IdleRun(k)
          /\ Advance(k * LOOP_SLEEP_MS)
          /\ IF k = WorkIn THEN UNCHANGED inputs_left ELSE Input
          /\ loop_now' = IF k > 1 /\ reset_requested
                         THEN now + (k - 1) * LOOP_SLEEP_MS ELSE loop_now
          /\ stale_request' = (stale_request \/ (k > 1 /\ reset_requested))
     \/ /\ inputs_left = 0
        /\ WorkIn = 0
        /\ UNCHANGED <<now, inputs_left, loop_now, stale_request>>
  /\ pc' = "L256"
  /\ UNCHANGED <<caller, led_i, round_open, winner_idx, win_ts,
                 last_edge, last_r, reset_requested, last_reset_handled, leds,
                 lcd, sound, decl, panel, toggle>>
  /\ UNCHANGED <<i2c_ok, btnR, btnR_ts, edge, prev_edge, n_press, n_btn_reset,
                 btn_reset_at, btn_reset_prev, n_auto>>

loop ==
  \/ loop_reset_requested
  \/ loop_cooldown
  \/ loop_wait_release
  \/ loop_last_reset_handled
  \/ loop_reset_round
  \/ loop_timeout
  \/ loop_sleep
  \/ reset_round

\* ------------------------------------------------------- specification
Next ==
  \/ loop
  \/ \E idx \in Buttons : ButtonEdge(idx)
  \/ ResetPress
  \/ ResetRelease
  \/ ResetBounce
  \/ I2cFault
  \/ KeyboardInterrupt

Spec == Init /\ [][Next]_vars

\* the polling loop keeps running, and a pressed switch is let go
FairSpec == Spec /\ WF_vars(loop) /\ WF_vars(ResetRelease)

\* ------------------------------------------------ Buzzer.play, call by call
\* what the playback and a winner declaration leave alone
loopvars == <<pc, caller, led_i, loop_now, last_edge, last_r, reset_requested,
              last_reset_handled>>
roundvars == <<round_open, winner_idx, win_ts, leds, lcd>>

\* the sequences the program plays
PlaySeqs ==
  {START_CHIME, DEFAULT_MELODY} \cup {MELODIES[i] : i \in 1 .. Len(MELODIES)}

\* the tuple (f, d, g) the for loop of line 132 is at
Note == p_seq[note_i + 1]

\* line 132: for f, d, g in seq
play_next ==
  /\ p_pc = "P132"
  /\ p_pc' = IF note_i < Len(p_seq) THEN "T122" ELSE "returned"
  /\ UNCHANGED <<now, duty, p_seq, note_i>>
  /\ UNCHANGED <<loopvars, roundvars, decl, env, obs, panel, toggle>>

\* lines 122-123: if freq <= 0: self.silence(ms); return
tone_entry ==
  /\ p_pc = "T122"
  /\ p_pc' = IF Note[1] <= 0 THEN "S129t" ELSE "T124"
  /\ UNCHANGED <<now, duty, p_seq, note_i>>
  /\ UNCHANGED <<loopvars, roundvars, decl, env, obs, panel, toggle>>

\* line 124: self.pwm.freq(int(freq))
tone_freq ==
  /\ p_pc = "T124"
  /\ p_pc' = "T125"
  /\ UNCHANGED <<now, duty, p_seq, note_i>>
  /\ UNCHANGED <<loopvars, roundvars, decl, env, obs, panel, toggle>>

\* line 125: self.pwm.duty_u16(self.volume)
tone_on ==
  /\ p_pc = "T125"
  /\ duty' = VOLUME_DUTY
  /\ p_pc' = "T126"
  /\ UNCHANGED <<now, p_seq, note_i>>
  /\ UNCHANGED <<loopvars, roundvars, decl, env, obs, panel, toggle>>

\* line 126: time.sleep_ms(ms)
tone_sleep ==
  /\ p_pc = "T126"
  /\ Advance(Note[2])
  /\ p_pc' = "T127"
  /\ UNCHANGED <<duty, p_seq, note_i>>
  /\ UNCHANGED <<loopvars, roundvars, decl, env, obs, panel, toggle>>

\* line 127: self.pwm.duty_u16(0)
tone_off ==
  /\ p_pc = "T127"
  /\ duty' = 0
  /\ p_pc' = "P134"
  /\ UNCHANGED <<now, p_seq, note_i>>
  /\ UNCHANGED <<loopvars, roundvars, decl, env, obs, panel, toggle>>

\* line 134: if g: self.silence(g)
play_gap ==
  /\ p_pc = "P134"
  /\ IF Note[3] # 0
     THEN p_pc' = "S129" /\ UNCHANGED note_i
     ELSE p_pc' = "P132" /\ note_i' = note_i + 1
  /\ UNCHANGED <<now, duty, p_seq>>
  /\ UNCHANGED <<loopvars, roundvars, decl, env, obs, panel, toggle>>

\* line 129: self.pwm.duty_u16(0), called from play or (S129t) from tone
silence_off ==
  /\ p_pc \in {"S129", "S129t"}
  /\ duty' = 0
  /\ p_pc' = IF p_pc = "S129" THEN "S130" ELSE "S130t"
  /\ UNCHANGED <<now, p_seq, note_i>>
  /\ UNCHANGED <<loopvars, roundvars, decl, env, obs, panel, toggle>>

\* line 130: time.sleep_ms(ms), then back to the caller
silence_sleep ==
  /\ p_pc \in {"S130", "S130t"}
  /\ IF p_pc = "S130"
     THEN /\ Advance(Note[3])
          /\ note_i' = note_i + 1
          /\ p_pc' = "P132"
     ELSE /\ Advance(Note[2])
          /\ UNCHANGED note_i
          /\ p_pc' = "P134"
  /\ UNCHANGED <<duty, p_seq>>
  /\ UNCHANGED <<loopvars, roundvars, decl, env, obs, panel, toggle>>

\* the positions at which play is inside a call of the PWM or of time
PlayCalls == {"T124", "T125", "T126", "T127", "S129", "S129t", "S130", "S130t"}

\* the call raises (ValueError from pwm.freq, KeyboardInterrupt during
\* sleep_ms, ...): neither tone nor play has a try, the exception leaves play
play_raises ==
  /\ p_pc \in PlayCalls
  /\ p_pc' = "raised"
  /\ UNCHANGED <<now, duty, p_seq, note_i>>
  /\ UNCHANGED <<loopvars, roundvars, decl, env, obs, panel, toggle>>

\* Buzzer.play(seq), lines 131-134, with tone and silence, lines 121-130
play ==
  \/ play_next
  \/ tone_entry
  \/ tone_freq
  \/ tone_on
  \/ tone_sleep
  \/ tone_off
  \/ play_gap
  \/ silence_off
  \/ silence_sleep

\* a call of Buzzer.play with one of the program's sequences
ToneInit ==
  /\ GameInit /\ DeclInit /\ EnvInit /\ ObsInit /\ PanelInit /\ ToggleIdle
  /\ duty = 0
  /\ p_pc = "P132"
  /\ p_seq \in PlaySeqs
  /\ note_i = 0

ToneNext == play \/ play_raises

ToneSpec == ToneInit /\ [][ToneNext]_vars

\* ------------------------------------- _declare_winner, line by line
\* line 217: self.round_open = False
declare_round_open ==
  /\ d_pc = "D217"
  /\ round_open' = FALSE
  /\ d_pc' = "D218"
  /\ UNCHANGED <<now, winner_idx, win_ts, leds, lcd, d_idx, d_i, d_name, d_melody>>
  /\ UNCHANGED <<loopvars, sound, env, obs, panel, toggle>>

\* line 218: self.winner_idx = idx
declare_winner_idx ==
  /\ d_pc = "D218"
  /\ winner_idx' = d_idx
  /\ d_pc' = "D219"
  /\ UNCHANGED <<now, round_open, win_ts, leds, lcd, d_idx, d_i, d_name, d_melody>>
  /\ UNCHANGED <<loopvars, sound, env, obs, panel, toggle>>

\* line 219: self.win_ts = time.ticks_ms()
declare_win_ts ==
  /\ d_pc = "D219"
  /\ win_ts' = now
  /\ d_i' = 0
  /\ d_pc' = "D222"
  /\ UNCHANGED <<now, round_open, winner_idx, leds, lcd, d_idx, d_name, d_melody>>
  /\ UNCHANGED <<loopvars, sound, env, obs, panel, toggle>>

\* lines 222-226: for i, led in enumerate(self.leds), one LED per step
declare_leds ==
  /\ d_pc = "D222"
  /\ IF d_i < NumButtons
     THEN /\ leds' = [leds EXCEPT ![d_i] = IF d_i = d_idx THEN LedOnValue
                                                         ELSE LedOffValue]
          /\ d_i' = d_i + 1
          /\ d_pc' = "D222"
     ELSE /\ d_pc' = "D228"
          /\ UNCHANGED <<leds, d_i>>
  /\ UNCHANGED <<now, round_open, winner_idx, win_ts, lcd, d_idx, d_name, d_melody>>
  /\ UNCHANGED <<loopvars, sound, env, obs, panel, toggle>>

\* line 228 followed at once by the melody of lines 233-235
declare_name_skips_display ==
  /\ d_pc = "D228"
  /\ d_name' = WinnerName(d_idx)
  /\ d_pc' = "D233"
  /\ UNCHANGED <<now, roundvars, d_idx, d_i, d_melody>>
  /\ UNCHANGED <<loopvars, sound, env, obs, panel, toggle>>

\* line 228: name = TEAM_NAMES[idx] if idx < len(TEAM_NAMES) else ...
declare_name ==
  /\ d_pc = "D228"
  /\ d_name' = WinnerName(d_idx)
  /\ d_pc' = "D229"
  /\ UNCHANGED <<now, roundvars, d_idx, d_i, d_melody>>
  /\ UNCHANGED <<loopvars, sound, env, obs, panel, toggle>>

\* line 229, lcd_winner line 106: lcd.clear(); an OSError of the bus is not
\* caught and ends the callback
lcd_winner_clear ==
  /\ d_pc = "D229"
  /\ IF i2c_ok
     THEN /\ lcd' = <<BlankRow, BlankRow>>
          /\ Advance(CLEAR_DELAY_MS)
          /\ d_pc' = "D229a"
     ELSE /\ d_pc' = "raised"
          /\ UNCHANGED <<now, lcd>>
  /\ UNCHANGED <<round_open, winner_idx, win_ts, leds, d_idx, d_i, d_name, d_melody>>
  /\ UNCHANGED <<loopvars, sound, env, obs, panel, toggle>>

\* lcd_winner line 107: first row
lcd_winner_row0 ==
  /\ d_pc = "D229a"
  /\ IF i2c_ok
     THEN /\ lcd' = <<WinnerRows(d_name)[1], lcd[2]>>
          /\ d_pc' = "D229b"
     ELSE /\ d_pc' = "raised"
          /\ UNCHANGED lcd
  /\ UNCHANGED <<now, round_open, winner_idx, win_ts, leds, d_idx, d_i, d_name, d_melody>>
  /\ UNCHANGED <<loopvars, sound, env, obs, panel, toggle>>

\* lcd_winner line 108: second row
lcd_winner_row1 ==
  /\ d_pc = "D229b"
  /\ IF i2c_ok
     THEN /\ lcd' = <<lcd[1], WinnerRows(d_name)[2]>>
          /\ d_pc' = "D233"
     ELSE /\ d_pc' = "raised"
          /\ UNCHANGED lcd
  /\ UNCHANGED <<now, round_open, winner_idx, win_ts, leds, d_idx, d_i, d_name, d_melody>>
  /\ UNCHANGED <<loopvars, sound, env, obs, panel, toggle>>

\* line 234: melody = MELODIES[idx] if idx < len(MELODIES) else [(C6,150,0)]
declare_melody ==
  /\ d_pc = "D233"
  /\ d_melody' = WinnerMelody(d_idx)
  /\ d_pc' = "D235"
  /\ UNCHANGED <<now, roundvars, d_idx, d_i, d_name>>
  /\ UNCHANGED <<loopvars, sound, env, obs, panel, toggle>>

\* line 235: self.buzzer.play(melody) is entered
declare_play ==
  /\ d_pc = "D235"
  /\ p_seq' = d_melody
  /\ note_i' = 0
  /\ p_pc' = "P132"
  /\ d_pc' = "D236"
  /\ UNCHANGED <<now, roundvars, duty, d_idx, d_i, d_name, d_melody>>
  /\ UNCHANGED <<loopvars, env, obs, panel, toggle>>

\* lines 235-237: play has returned, or it has raised and the except
\* clause has printed the error
declare_return ==
  /\ d_pc = "D236"
  /\ p_pc \in {"returned", "raised"}
  /\ d_pc' = "done"
  /\ UNCHANGED <<now, roundvars, d_idx, d_i, d_name, d_melody>>
  /\ UNCHANGED <<loopvars, sound, env, obs, panel, toggle>>

\* _declare_winner(idx), lines 216-237
declare_winner_lines ==
  \/ declare_round_open
  \/ declare_winner_idx
  \/ declare_win_ts
  \/ declare_leds
  \/ declare_name
  \/ lcd_winner_clear
  \/ lcd_winner_row0
  \/ lcd_winner_row1
  \/ declare_melody
  \/ declare_play
  \/ declare_return

\* a call of _declare_winner(idx) in an open round, for every index up to
\* MaxIdx, with the display answering or not
DeclareInit ==
  /\ GameInit /\ SoundInit /\ ObsInit /\ PanelInit /\ ToggleIdle
  /\ i2c_ok \in BOOLEAN
  /\ btnR = 1
  /\ btnR_ts = 0
  /\ inputs_left = MaxInputs
  /\ d_pc = "D217"
  /\ d_idx \in 0 .. MaxIdx
  /\ d_i = 0
  /\ d_name = ""
  /\ d_melody = <<>>

DeclareNext == declare_winner_lines \/ play \/ play_raises

DeclareSpec == DeclareInit /\ [][DeclareNext]_vars

\* ------------------------------------------- display driver on the bus
\* what a display transfer leaves alone
nopanel == <<loopvars, roundvars, sound, decl, toggle, env, obs>>

\* the controller runs the byte it has received in two nibbles: data goes to
\* the cell under the address counter, command 0x01 clears, commands 0x02
\* and 0x03 home the counter, commands from 0x80 on set the counter
HdExecute(byte, rs) ==
  IF rs = 1
  THEN /\ hd_ddram' = [a \in DOMAIN hd_ddram |->
                         IF a = hd_ac THEN byte ELSE hd_ddram[a]]
       /\ hd_ac' = NextAc(hd_ac)
  ELSE IF byte = CMD_CLEAR
  THEN /\ hd_ddram' = [a \in DdramAddrs |-> ord(" ")]
       /\ hd_ac' = 0
  ELSE IF byte >= CMD_SET_DDRAM
  THEN /\ hd_ac' = byte - CMD_SET_DDRAM
       /\ UNCHANGED hd_ddram
  ELSE /\ hd_ac' = IF byte \in {2, 3} THEN 0 ELSE hd_ac
       /\ UNCHANGED hd_ddram

\* the controller sees byte w on the bus: it takes the nibble of bits 4..7
\* when the strobe falls (4-bit mode, lines 62-65)
HdWrite(w) ==
  /\ hd_e' = Bit(w, MASK_E)
  /\ IF hd_e = 1 /\ Bit(w, MASK_E) = 0
     THEN IF hd_hi = None
          THEN /\ hd_hi' = w \div 16
               /\ UNCHANGED <<hd_ac, hd_ddram>>
          ELSE /\ hd_hi' = None
               /\ HdExecute(hd_hi * 16 + w \div 16, Bit(w, MASK_RS))
     ELSE UNCHANGED <<hd_hi, hd_ac, hd_ddram>>

\* the bus writes of a transfer: _send_byte(val, rs), _send_nibble(val, rs)
\* or _write_byte(val)
Transfer(kind, val, rs) ==
  IF kind = "byte" THEN send_byte(val, rs)
  ELSE IF kind = "nibble" THEN send_nibble(val, rs)
  ELSE <<write_byte(val)>>

\* a transfer is entered
StartTransfer(kind, val, rs) ==
  /\ b_kind' = kind
  /\ b_val' = val
  /\ b_rs' = rs
  /\ b_pc' = 0
  /\ wires' = <<>>

\* _send_byte(val, rs) is entered
StartSend(val, rs) == StartTransfer("byte", val, rs)

\* no transfer is running
BusIdle == b_pc = Len(Transfer(b_kind, b_val, b_rs))

\* line 75: the next i2c.writeto of the running transfer
bus_write ==
  /\ ~BusIdle
  /\ wires' = Append(wires, Transfer(b_kind, b_val, b_rs)[b_pc + 1])
  /\ bus_log' = Append(bus_log, Transfer(b_kind, b_val, b_rs)[b_pc + 1])
  /\ HdWrite(Transfer(b_kind, b_val, b_rs)[b_pc + 1])
  /\ b_pc' = b_pc + 1
  /\ UNCHANGED <<l_pc, l_label, l_row, l_k, l_col, i_pc, fmt, b_kind, b_val, b_rs>>
  /\ UNCHANGED <<now, nopanel>>

\* lcd.clear(), line 87: command(0x01)
lcd_clear ==
  /\ l_pc = "clear"
  /\ BusIdle
  /\ StartSend(CMD_CLEAR, 0)
  /\ l_pc' = "delay"
  /\ UNCHANGED <<l_label, l_row, l_k, l_col, i_pc, fmt, bus_log,
                 hd_e, hd_hi, hd_ac, hd_ddram>>
  /\ UNCHANGED <<now, nopanel>>

\* command, line 84: if cmd in (0x01, 0x02): time.sleep_ms(2)
command_delay ==
  /\ l_pc = "delay"
  /\ BusIdle
  /\ Advance(CLEAR_DELAY_MS)
  /\ l_pc' = "cursor"
  /\ UNCHANGED <<l_label, l_row, l_k, l_col, i_pc, fmt, bus_log,
                 b_kind, b_val, b_rs, b_pc, wires, hd_e, hd_hi, hd_ac, hd_ddram>>
  /\ UNCHANGED nopanel

\* lcd.set_cursor(col, row), lines 89-91
lcd_set_cursor ==
  /\ l_pc = "cursor"
  /\ BusIdle
  /\ StartSend(set_cursor_cmd(l_col, l_row), 0)
  /\ l_k' = 0
  /\ l_pc' = "write"
  /\ UNCHANGED <<l_label, l_row, l_col, i_pc, fmt, bus_log,
                 hd_e, hd_hi, hd_ac, hd_ddram>>
  /\ UNCHANGED <<now, nopanel>>

\* lcd.write(center(label, LCD_COLS)), lines 85-86: one write_char per step
lcd_write ==
  /\ l_pc = "write"
  /\ BusIdle
  /\ IF l_k < Len(center(l_label, LCD_COLS))
     THEN /\ StartSend(ord(Char(center(l_label, LCD_COLS), l_k + 1)), 1)
          /\ l_k' = l_k + 1
          /\ l_pc' = "write"
     ELSE /\ l_pc' = "done"
          /\ UNCHANGED <<l_k, b_kind, b_val, b_rs, b_pc, wires>>
  /\ UNCHANGED <<l_label, l_row, l_col, i_pc, fmt, bus_log,
                 hd_e, hd_hi, hd_ac, hd_ddram>>
  /\ UNCHANGED <<now, nopanel>>

\* the labels the program shows
Labels ==
  {"READY", "Press a button", "Wait/Reset to play", "Goodbye!"}
    \cup {WinnerName(i) \o " WINS!" : i \in 0 .. MaxIdx}

\* clear, set_cursor(0, row), write(center(label)) on the display as the
\* constructor has left it
LcdInit ==
  /\ GameInit /\ SoundInit /\ DeclInit /\ EnvInit /\ ObsInit /\ ToggleIdle
  /\ l_pc = "clear"
  /\ l_label \in Labels
  /\ l_row \in {0, 1}
  /\ l_k = 0
  /\ l_col = 0
  /\ i_pc = Len(INIT_SEQ)
  /\ bus_log = <<>>
  /\ FmtIdle
  /\ b_kind = "byte"
  /\ b_val = 0
  /\ b_rs = 0
  /\ b_pc = 4
  /\ wires = <<>>
  /\ hd_e = 0
  /\ hd_hi = None
  /\ hd_ac = row_offsets[2] + LCD_COLS
  /\ hd_ddram = DdramOf(center("READY", LCD_COLS),
                        center("Press a button", LCD_COLS))

LcdNext ==
  \/ lcd_clear
  \/ command_delay
  \/ lcd_set_cursor
  \/ lcd_write
  \/ bus_write

LcdSpec == LcdInit /\ [][LcdNext]_vars

\* lines 59-72, I2cLcd.__init__: the next transfer of the constructor, after
\* the sleep that follows the one before it; after the last one the
\* constructor returns and the driver is used
lcd_init ==
  /\ l_pc = "init"
  /\ BusIdle
  /\ now' = now + (IF i_pc = 0 THEN 0 ELSE INIT_SEQ[i_pc][3])
  /\ IF i_pc < Len(INIT_SEQ)
     THEN /\ StartTransfer(INIT_SEQ[i_pc + 1][1], INIT_SEQ[i_pc + 1][2], 0)
          /\ i_pc' = i_pc + 1
          /\ UNCHANGED l_pc
     ELSE /\ l_pc' = "clear"
          /\ UNCHANGED <<i_pc, b_kind, b_val, b_rs, b_pc, wires>>
  /\ UNCHANGED <<l_label, l_row, l_k, l_col, fmt, bus_log,
                 hd_e, hd_hi, hd_ac, hd_ddram>>
  /\ UNCHANGED nopanel

\* the driver is constructed on a display that has just been powered, and
\* then shows one label
LcdPowerOn ==
  /\ GameInit /\ SoundInit /\ DeclInit /\ EnvInit /\ ObsInit /\ ToggleIdle
  /\ l_pc = "init"
  /\ l_label \in Labels
  /\ l_row \in {0, 1}
  /\ l_k = 0
  /\ l_col = 0
  /\ i_pc = 0
  /\ bus_log = <<>>
  /\ FmtIdle
  /\ b_kind = "raw"
  /\ b_val = 0
  /\ b_rs = 0
  /\ b_pc = 1
  /\ wires = <<>>
  /\ hd_e = 0
  /\ hd_hi = None
  /\ hd_ac = 0
  /\ hd_ddram = [a \in DdramAddrs |-> ord(" ")]

InitNext ==
  \/ lcd_init
  \/ lcd_clear
  \/ command_delay
  \/ lcd_set_cursor
  \/ lcd_write
  \/ bus_write

InitSpec == LcdPowerOn /\ [][InitNext]_vars

\* the rows the driver can address, line 90
Rows == 0 .. 3

\* set_cursor(col, row) for every column and row, on a cleared display
CursorInit ==
  /\ GameInit /\ SoundInit /\ DeclInit /\ EnvInit /\ ObsInit /\ ToggleIdle
  /\ l_pc = "cursor"
  /\ l_label = ""
  /\ l_row \in Rows
  /\ l_k = 0
  /\ l_col \in 0 .. LCD_COLS - 1
  /\ i_pc = Len(INIT_SEQ)
  /\ bus_log = <<>>
  /\ FmtIdle
  /\ b_kind = "byte"
  /\ b_val = 0
  /\ b_rs = 0
  /\ b_pc = 4
  /\ wires = <<>>
  /\ hd_e = 0
  /\ hd_hi = None
  /\ hd_ac = 0
  /\ hd_ddram = [a \in DdramAddrs |-> ord(" ")]

CursorNext ==
  \/ lcd_set_cursor
  \/ bus_write

CursorSpec == CursorInit /\ [][CursorNext]_vars

\* the widest field center is asked for
MaxWidth == 20

\* the texts center is given: the labels of the program, the empty text and
\* texts of one, two and three characters
Texts == Labels \cup {"", "a", "ab", "abc"}

\* line 95: center(c_text, c_width) returns
center_call ==
  /\ c_out = <<>>
  /\ c_out' = <<center(c_text, c_width)>>
  /\ UNCHANGED <<c_text, c_width>>
  /\ UNCHANGED <<l_pc, l_label, l_row, l_k, l_col, i_pc, bus_log,
                 b_kind, b_val, b_rs, b_pc, wires, hd_e, hd_hi, hd_ac, hd_ddram>>
  /\ UNCHANGED <<now, nopanel>>

\* center(text, width) for every text and every width from 0
CenterInit ==
  /\ GameInit /\ SoundInit /\ DeclInit /\ EnvInit /\ ObsInit /\ ToggleIdle
  /\ l_pc = "done"
  /\ l_label = ""
  /\ l_row = 0
  /\ l_k = 0
  /\ l_col = 0
  /\ i_pc = Len(INIT_SEQ)
  /\ bus_log = <<>>
  /\ c_text \in Texts
  /\ c_width \in 0 .. MaxWidth
  /\ c_out = <<>>
  /\ b_kind = "byte"
  /\ b_val = 0
  /\ b_rs = 0
  /\ b_pc = 4
  /\ wires = <<>>
  /\ hd_e = 0
  /\ hd_hi = None
  /\ hd_ac = 0
  /\ hd_ddram = [a \in DdramAddrs |-> ord(" ")]

CenterNext == center_call

CenterSpec == CenterInit /\ [][CenterNext]_vars

\* _send_byte(val, rs) for every byte and both values of rs
BusInit ==
  /\ GameInit /\ SoundInit /\ DeclInit /\ EnvInit /\ ObsInit /\ ToggleIdle
  /\ l_pc = "done"
  /\ l_label = ""
  /\ l_row = 0
  /\ l_k = 0
  /\ l_col = 0
  /\ i_pc = Len(INIT_SEQ)
  /\ bus_log = <<>>
  /\ FmtIdle
  /\ b_kind = "byte"
  /\ b_val \in 0 .. 255
  /\ b_rs \in {0, 1}
  /\ b_pc = 0
  /\ wires = <<>>
  /\ hd_e = 0
  /\ hd_hi = None
  /\ hd_ac = 0
  /\ hd_ddram = [a \in DdramAddrs |-> ord(" ")]

BusNext == bus_write

BusSpec == BusInit /\ [][BusNext]_vars

\* ------------------------------------------------------ toggle program
\* what the toggle program does not have
notoggle == <<pc, caller, led_i, loop_now, round_open, winner_idx, win_ts,
              last_r, reset_requested, last_reset_handled, sound, decl, panel,
              btnR, btnR_ts, i2c_ok, obs>>

\* display rows written by lcd_show_last
LastRows(name) == <<  <<"Last pressed">>, <<name>>  >>

\* line 145: name = TEAM_NAMES[idx] if idx < len(TEAM_NAMES) else ...
ToggleName(idx) ==
  IF idx < Len(TEAM_NAMES) THEN TEAM_NAMES[idx + 1]
  ELSE "Button " \o ToString(idx + 1)

\* ToggleGame._irq_btn(idx), lines 125-130
toggle_irq_btn(idx) ==
  IF ticks_diff(now, last_edge[idx]) < DEBOUNCE_MS
  THEN UNCHANGED <<last_edge, pending_idx, n_accept, mail_id>>
  ELSE /\ last_edge' = [last_edge EXCEPT ![idx] = now]
       /\ pending_idx' = idx
       /\ n_accept' = n_accept + 1
       /\ mail_id' = n_accept + 1

\* a falling edge on button idx (IRQ_FALLING, line 115)
ToggleEdge(idx) ==
  /\ t_pc # "idle"
  /\ Input
  /\ toggle_irq_btn(idx)
  /\ UNCHANGED <<now, leds, lcd, t_pc, t_idx, led_state, showing_last,
                 msg_deadline, read_id, lost>>
  /\ UNCHANGED <<tobs, notoggle>>

\* line 136: if self.pending_idx is not None
toggle_test ==
  /\ t_pc = "T136"
  /\ t_pc' = IF pending_idx # None THEN "T137" ELSE "T151"
  /\ UNCHANGED <<now, last_edge, leds, lcd, inputs_left, pending_idx, t_idx,
                 led_state, showing_last, msg_deadline, n_accept, mail_id,
                 read_id, lost>>
  /\ UNCHANGED <<tobs, notoggle>>

\* line 137: idx = self.pending_idx
toggle_read ==
  /\ t_pc = "T137"
  /\ t_idx' = pending_idx
  /\ read_id' = mail_id
  /\ t_pc' = "T138"
  /\ UNCHANGED <<now, last_edge, leds, lcd, inputs_left, pending_idx,
                 led_state, showing_last, msg_deadline, n_accept, mail_id, lost>>
  /\ UNCHANGED <<tobs, notoggle>>

\* line 138: self.pending_idx = None
toggle_clear ==
  /\ t_pc = "T138"
  /\ pending_idx' = None
  /\ lost' = (lost \/ mail_id # read_id)
  /\ mail_id' = 0
  /\ t_pc' = "T141"
  /\ UNCHANGED <<now, last_edge, leds, lcd, inputs_left, t_idx, led_state,
                 showing_last, msg_deadline, n_accept, read_id>>
  /\ UNCHANGED <<tobs, notoggle>>

\* line 141 inverting the state of every LED
toggle_led_state_all ==
  /\ t_pc = "T141"
  /\ led_state' = [i \in Buttons |-> ~led_state[i]]
  /\ t_pc' = "T142"
  /\ UNCHANGED <<now, last_edge, leds, lcd, inputs_left, pending_idx, t_idx,
                 showing_last, msg_deadline, n_accept, mail_id, read_id, lost>>
  /\ UNCHANGED <<tobs, notoggle>>

\* line 141: self.led_state[idx] = not self.led_state[idx]
toggle_led_state ==
  /\ t_pc = "T141"
  /\ led_state' = [led_state EXCEPT ![t_idx] = ~led_state[t_idx]]
  /\ t_pc' = "T142"
  /\ UNCHANGED <<now, last_edge, leds, lcd, inputs_left, pending_idx, t_idx,
                 showing_last, msg_deadline, n_accept, mail_id, read_id, lost>>
  /\ UNCHANGED <<tobs, notoggle>>

\* line 142: self._apply_leds(), lines 120-122
apply_leds ==
  /\ t_pc = "T142"
  /\ leds' = [i \in Buttons |-> IF led_state[i] THEN LedOnValue
                                                 ELSE LedOffValue]
  /\ t_pc' = "T145"
  /\ UNCHANGED <<now, last_edge, lcd, inputs_left, pending_idx, t_idx,
                 led_state, showing_last, msg_deadline, n_accept, mail_id,
                 read_id, lost>>
  /\ UNCHANGED <<tobs, notoggle>>

\* lines 145-146: lcd_show_last(self.lcd, name), lines 81-84
lcd_show_last ==
  /\ t_pc = "T145"
  /\ lcd' = LastRows(ToggleName(t_idx))
  /\ Advance(CLEAR_DELAY_MS)
  /\ t_pc' = "T147"
  /\ UNCHANGED <<last_edge, leds, inputs_left, pending_idx, t_idx, led_state,
                 showing_last, msg_deadline, n_accept, mail_id, read_id, lost>>
  /\ UNCHANGED <<tobs, notoggle>>

\* line 147: self.showing_last = True
toggle_showing_last ==
  /\ t_pc = "T147"
  /\ showing_last' = TRUE
  /\ t_pc' = "T148"
  /\ UNCHANGED <<now, last_edge, leds, lcd, inputs_left, pending_idx, t_idx,
                 led_state, msg_deadline, n_accept, mail_id, read_id, lost>>
  /\ UNCHANGED <<tobs, notoggle>>

\* line 148: self.msg_deadline = ticks_add(ticks_ms(), MSG_HOLD_MS)
toggle_msg_deadline ==
  /\ t_pc = "T148"
  /\ msg_deadline' = now + MSG_HOLD_MS
  /\ t_pc' = "T151"
  /\ proc_at' = now
  /\ holds' = IF n_ready = 0 THEN holds + 1 ELSE 1
  /\ n_ready' = 0
  /\ UNCHANGED <<now, last_edge, leds, lcd, inputs_left, pending_idx, t_idx,
                 led_state, showing_last, n_accept, mail_id, read_id, lost>>
  /\ UNCHANGED notoggle

\* the test of line 151 without the deadline
DeadlineDue_always(t) == showing_last

\* the test of line 151 at time t
DeadlineDue(t) == showing_last /\ ticks_diff(t, msg_deadline) >= 0

\* line 151: if self.showing_last and ticks_diff(ticks_ms(), deadline) >= 0
toggle_deadline ==
  /\ t_pc = "T151"
  /\ t_pc' = IF DeadlineDue(now) THEN "T152" ELSE "T155"
  /\ UNCHANGED <<now, last_edge, leds, lcd, inputs_left, pending_idx, t_idx,
                 led_state, showing_last, msg_deadline, n_accept, mail_id,
                 read_id, lost>>
  /\ UNCHANGED <<tobs, notoggle>>

\* line 152: lcd_show_ready(self.lcd), lines 76-79
lcd_show_ready ==
  /\ t_pc = "T152"
  /\ lcd' = ReadyRows
  /\ Advance(CLEAR_DELAY_MS)
  /\ t_pc' = "T153"
  /\ n_ready' = n_ready + 1
  /\ UNCHANGED <<last_edge, leds, inputs_left, pending_idx, t_idx, led_state,
                 showing_last, msg_deadline, n_accept, mail_id, read_id, lost,
                 proc_at, holds>>
  /\ UNCHANGED notoggle

\* line 153: self.showing_last = False
toggle_not_showing ==
  /\ t_pc = "T153"
  /\ showing_last' = FALSE
  /\ t_pc' = "T155"
  /\ UNCHANGED <<now, last_edge, leds, lcd, inputs_left, pending_idx, t_idx,
                 led_state, msg_deadline, n_accept, mail_id, read_id, lost>>
  /\ UNCHANGED <<tobs, notoggle>>

\* number of iterations until the toggle loop has work to do, 0 if it
\* never has
ToggleWorkIn ==
  IF pending_idx # None THEN 1
  ELSE IF showing_last THEN Sleeps(ticks_diff(msg_deadline, now))
  ELSE 0

\* k iterations from line 155 on are idle: after each sleep but the last the
\* tests of lines 136 and 151 are false
ToggleIdleRun(k) ==
  k > 1 => (pending_idx = None /\ ~DeadlineDue(now + (k - 1) * LOOP_SLEEP_MS))

\* line 155: time.sleep_ms(10), and the idle iterations that follow it, as
\* in loop_sleep
toggle_sleep ==
  /\ t_pc = "T155"
  /\ \/ \E k \in IdleRuns \cup {ToggleWorkIn} :
          /\ k > 0
          /\ ToggleIdleRun(k)
          /\ Advance(k * LOOP_SLEEP_MS)
          /\ IF k = ToggleWorkIn THEN UNCHANGED inputs_left ELSE Input
     \/ /\ inputs_left = 0
        /\ ToggleWorkIn = 0
        /\ UNCHANGED <<now, inputs_left>>
  /\ t_pc' = "T136"
  /\ UNCHANGED <<last_edge, leds, lcd, pending_idx, t_idx, led_state,
                 showing_last, msg_deadline, n_accept, mail_id, read_id, lost>>
  /\ UNCHANGED <<tobs, notoggle>>

\* ToggleGame.loop, lines 133-155
toggle_loop ==
  \/ toggle_test
  \/ toggle_read
  \/ toggle_clear
  \/ toggle_led_state
  \/ apply_leds
  \/ lcd_show_last
  \/ toggle_showing_last
  \/ toggle_msg_deadline
  \/ toggle_deadline
  \/ lcd_show_ready
  \/ toggle_not_showing
  \/ toggle_sleep

\* ToggleGame.__init__, lines 88-115, and the entry of loop()
ToggleInit ==
  /\ GameInit /\ SoundInit /\ DeclInit /\ EnvInit /\ ObsInit /\ PanelInit
  /\ t_pc = "T136"
  /\ pending_idx = None
  /\ t_idx = None
  /\ led_state = [i \in Buttons |-> FALSE]
  /\ showing_last = FALSE
  /\ msg_deadline = 0
  /\ n_accept = 0
  /\ mail_id = 0
  /\ read_id = 0
  /\ lost = FALSE
  /\ proc_at = None
  /\ holds = 0
  /\ n_ready = 0

ToggleNext ==
  \/ toggle_loop
  \/ \E idx \in Buttons : ToggleEdge(idx)

ToggleSpec == ToggleInit /\ [][ToggleNext]_vars

\* the polling loop keeps running
ToggleFairSpec == ToggleSpec /\ WF_vars(toggle_loop)

\* ------------------------------------------------------------- properties
\* a step in which the callback of contestant channel i accepts an edge
Accepted(i) == last_edge'[i] # last_edge[i]

OnlyLedOn(w) == \A i \in Buttons : LedIsOn(i) <=> i = w
AllLedsOff == \A i \in Buttons : ~LedIsOn(i)

\* C1: first press wins.  An accepted press on channel i while the round is
\* open closes the round with winner i; an accepted press while the round is
\* closed leaves the round closed and the winner unchanged.
C1_FirstPressWins ==
  [][\A i \in Buttons :
       Accepted(i) =>
         IF round_open
         THEN ~round_open' /\ winner_idx' = i
         ELSE ~round_open' /\ winner_idx' = winner_idx]_vars

\* a later press on the other channel was accepted while channel 0 had won
C1_Witness ==
  ~round_open /\ winner_idx = 0 /\ last_edge[1] > win_ts

\* C2: at the start of every iteration of the polling loop a winner is
\* recorded if and only if the round is not open.
C2_RoundStateInvariant ==
  pc = "L256" => ((winner_idx # None) <=> ~round_open)

\* C3: when the reset_round called for the reset button returns, the round
\* is open, the winner is cleared and every LED is off.
C3_ResetCorrect ==
  [][(pc = "R251" /\ pc' # "R251" /\ caller = "L263") =>
       (round_open' /\ winner_idx' = None /\ AllLedsOff')]_vars

\* C4: whenever the round is closed with winner i and no reset is in
\* progress, LED i is on and every other LED is off.
C4_OneLedOn ==
  (~round_open /\ winner_idx # None /\ ~InResetRound) => OnlyLedOn(winner_idx)

\* C5: a contestant-button callback changes neither the round state nor the
\* display and does not block for a tone.
C5_IrqDiscipline ==
  [][(\E i \in Buttons : ButtonEdge(i)) =>
       (round_open' = round_open /\ winner_idx' = winner_idx /\ lcd' = lcd
        /\ now' = now)]_vars

\* C6: the automatic reset runs at most once for one winner declaration,
\* and the loop never goes to sleep on a timeout that is due.
C6_TimeoutOnce ==
  /\ n_auto <= 1
  /\ pc = "L270" => ~TimeoutDue(now)

\* the automatic reset has run and the loop has iterated well past it
C6_Witness ==
  /\ n_auto = 1
  /\ pc = "L256"
  /\ round_open
  /\ ticks_diff(now, win_ts) >= TIMEOUT_S * 1000 + RESET_COOLDOWN_MS

\* C7: while the polling loop keeps running, a round that is not open is
\* open again later.
C7_Rearms == (~round_open /\ Running) ~> (round_open \/ ~Running)

\* gap between the latest edge and the edge before it on the same channel
EdgeGap == edge.at - edge.prev_at
TwoEdges == edge.ch # None /\ edge.prev_at # None

\* C8 as claimed: of two edges on one channel less than the debounce window
\* apart only the first is accepted; of two edges more than the window
\* apart both are accepted.
C8_DebounceAsClaimed ==
  TwoEdges =>
    /\ EdgeGap < DEBOUNCE_MS => (edge.prev_acc /\ ~edge.acc)
    /\ EdgeGap > DEBOUNCE_MS => (edge.prev_acc /\ edge.acc)

\* C8: of two consecutive edges on one channel whose first is accepted, the
\* second is rejected if it comes less than the debounce window after the
\* first, and accepted if it comes more than the window after it.
C8_Debounce ==
  (TwoEdges /\ edge.prev_acc) =>
    /\ EdgeGap < DEBOUNCE_MS => ~edge.acc
    /\ EdgeGap > DEBOUNCE_MS => edge.acc

\* an edge was rejected inside the window of an accepted edge
C8_Witness ==
  TwoEdges /\ edge.prev_acc /\ EdgeGap < DEBOUNCE_MS /\ ~edge.acc

\* C9: reset_round is not called for the reset button more often than the
\* switch has been pressed.
C9_OnePressOneReset == n_btn_reset <= n_press

\* C10: two calls of reset_round for the reset button are at least
\* RESET_COOLDOWN_MS apart.
C10_ResetCooldown ==
  btn_reset_prev # None =>
    ticks_diff(btn_reset_at, btn_reset_prev) >= RESET_COOLDOWN_MS

\* C11: a reset request that line 258 saw while the cooldown was running is
\* dropped: the loop never goes on to handle it.
C11_CooldownDrops ==
  pc \in {"L259", "L261", "L262"} => ~stale_request

\* C12: no failure of a display call ends the program: the polling loop is
\* never left by an exception.
C12_NoFatalFailure == pc # "crashed"

\* C13: after a shutdown by KeyboardInterrupt the buzzer is silent, the
\* display is blank and every LED is off.
C13_ShutdownCleanup ==
  pc = "exit" => (duty = 0 /\ lcd = <<BlankRow, BlankRow>> /\ AllLedsOff)

\* C14: when Buzzer.play has returned or has been left by an exception, the
\* duty of the buzzer pin is 0.
C14_SilentOnReturn == p_pc \in {"returned", "raised"} => duty = 0

Range(f) == {f[x] : x \in DOMAIN f}

\* C15: a declaration for an index without a configured name or melody ends
\* with the round closed, that index as winner, a label that is none of the
\* configured names on the display and the default melody played; it is
\* left by an exception only if the display fails.
C15_Fallback ==
  /\ (d_idx # None /\ d_pc = "raised") => ~i2c_ok
  /\ (d_pc = "done" /\ d_idx >= Len(TEAM_NAMES)) =>
       /\ ~round_open
       /\ winner_idx = d_idx
       /\ d_name \notin Range(TEAM_NAMES)
       /\ lcd[1][1] = d_name
       /\ p_seq = DEFAULT_MELODY

\* a declaration for an unconfigured index has run to its end
C15_Witness ==
  d_pc = "done" /\ d_idx >= Len(TEAM_NAMES) /\ p_pc = "returned"

\* C18: a contestant press while the round is closed changes nothing but
\* that channel's last-edge timestamp: round state, winner, winner
\* timestamp, LEDs, display, clock, reset state and the other channels'
\* timestamps stay as they are.
C18_ClosedPressNoOp ==
  [][\A i \in Buttons :
       (ButtonEdge(i) /\ ~round_open) =>
         /\ UNCHANGED <<round_open, winner_idx, win_ts, leds, lcd, now, duty>>
         /\ UNCHANGED <<last_r, reset_requested, last_reset_handled, pc>>
         /\ \A j \in Buttons \ {i} : last_edge'[j] = last_edge[j]]_vars

\* the latest edge is a press of a losing channel that the callback
\* accepted after the winner was declared
C18_Witness ==
  /\ ~round_open
  /\ winner_idx \in Buttons
  /\ edge.ch \in Buttons \ {winner_idx}
  /\ edge.acc
  /\ edge.at > win_ts
  /\ last_edge[edge.ch] = edge.at

\* C19: the side effects of a declaration come in the order state, LEDs,
\* display, tone: once the playback has been entered the display shows the
\* winner; once the display has been touched the LEDs show the winner; once
\* a LED is on the round is closed with the winner and the time of the call.
C19_Order ==
  /\ (p_pc # "idle" \/ duty > 0) => lcd = WinnerRows(d_name)
  /\ lcd # ReadyRows => OnlyLedOn(d_idx)
  /\ (\E i \in Buttons : LedIsOn(i)) =>
       (~round_open /\ winner_idx = d_idx /\ win_ts = BootMs)

\* the first tone of a declaration is sounding
C19_Witness ==
  /\ d_pc = "D236"
  /\ duty > 0
  /\ note_i = 0
  /\ d_idx \in Buttons
  /\ lcd = WinnerRows(d_name)
  /\ OnlyLedOn(d_idx)

\* C16: after clear, set_cursor(0, row) and write of a label the row shows
\* the label centred, or its first LCD_COLS characters if it is longer, and
\* the other row is blank.
C16_RoundTrip ==
  l_pc = "done" /\ l_label # "" =>
    LET n == Len(l_label)
        pad == (LCD_COLS - n) \div 2
    IN  \A c \in 0 .. LCD_COLS - 1 :
          /\ Grid(l_row, c) =
               (IF n >= LCD_COLS THEN Char(l_label, c + 1)
                ELSE IF c >= pad /\ c < pad + n THEN Char(l_label, c - pad + 1)
                ELSE " ")
          /\ Grid(1 - l_row, c) = " "

\* a label longer than the display is up on the second row
C16_Witness ==
  /\ l_pc = "done"
  /\ Len(l_label) > LCD_COLS
  /\ l_row = 1
  /\ Grid(1, 0) = "W"
  /\ Grid(1, LCD_COLS - 1) = "l"

\* C20: a byte is sent in four bus writes: high nibble with strobe, high
\* nibble without, low nibble with strobe, low nibble without; each write
\* has the nibble in bits 4..7, rs in bit 0, the backlight bit set and the
\* read/write bit clear.
C20_NibbleProtocol ==
  /\ Len(wires) <= 4
  /\ b_pc = 4 /\ l_pc = "done" /\ wires # <<>> =>
       /\ Len(wires) = 4
       /\ \A k \in 1 .. 4 :
            /\ wires[k] \in 0 .. 255
            /\ Bit(wires[k], MASK_E) = (IF k \in {1, 3} THEN 1 ELSE 0)
            /\ \A j \in {1, 2, 4, 8} :
                 Bit(wires[k], 16 * j) =
                   Bit(b_val, IF k <= 2 THEN 16 * j ELSE j)
            /\ Bit(wires[k], MASK_RS) = b_rs
            /\ Bit(wires[k], MASK_BL) = 1
            /\ Bit(wires[k], MASK_RW) = 0

\* byte 0xA5 has been sent as data: 0xAD, 0xA9, 0x5D, 0x59
C20_Witness ==
  /\ b_pc = 4
  /\ b_val = 165
  /\ b_rs = 1
  /\ wires = <<173, 169, 93, 89>>

\* C17: the clear of line 138 never removes from the mailbox a press that
\* line 137 has not read.
C17_MailboxLosesNothing == ~lost

\* the bus write w has the enable line high: the controller takes its
\* nibble when the line falls
IsStrobe(w) == Bit(w, MASK_E) = 1

Strobes(log) == SelectSeq(log, IsStrobe)

\* the nibbles of the claimed sequence: 0x3 0x3 0x3 0x2, then 0x28, 0x08,
\* 0x01, 0x06, 0x0C, each high nibble first
InitNibbles == <<3, 3, 3, 2, 2, 8, 0, 8, 0, 1, 0, 6, 0, 12>>

\* the constructor has returned
Constructed == i_pc = Len(INIT_SEQ) /\ BusIdle

\* C21: constructing the driver strobes, in this order and with the
\* register-select line low, the nibbles 3, 3, 3, 2 and then the commands
\* 0x28, 0x08, 0x01, 0x06, 0x0C; the only other bus writes are the first
\* one, which carries no strobe, and the enable-low half of every strobe;
\* the constructor does not return before all of them are out, and until
\* it has returned the display memory is blank and the cursor at 0
C21_InitOrder ==
  LET s == Strobes(bus_log)
      n == IF Len(s) < Len(InitNibbles) THEN Len(s) ELSE Len(InitNibbles)
      m == IF Len(bus_log) < 2 * Len(InitNibbles) + 1
           THEN Len(bus_log) ELSE 2 * Len(InitNibbles) + 1
  IN  /\ \A k \in 1 .. n :
           /\ s[k] \div 16 = InitNibbles[k]
           /\ Bit(s[k], MASK_RS) = 0
      /\ \A k \in 1 .. m :
           IF k = 1 THEN ~IsStrobe(bus_log[k])
           ELSE IF k % 2 = 0 THEN IsStrobe(bus_log[k])
           ELSE bus_log[k] = BitClear(bus_log[k - 1], MASK_E)
      /\ l_pc # "init" => Len(s) >= Len(InitNibbles)
      /\ l_pc = "init" =>
           /\ Len(s) <= Len(InitNibbles)
           /\ hd_ac = 0
           /\ \A a \in DdramAddrs : hd_ddram[a] = ord(" ")

\* the constructor has just returned: the display-on command is the last
\* thing on the bus
C21_Witness ==
  /\ l_pc = "init"
  /\ Constructed
  /\ Len(Strobes(bus_log)) = Len(InitNibbles)
  /\ Strobes(bus_log)[Len(InitNibbles)] \div 16 = 12
\* the row base table of the claim for a display of LCD_COLS columns
RowBase == <<0, 64, LCD_COLS, 64 + LCD_COLS>>

\* C22: set_cursor(col, row) sends one command, with register-select low,
\* whose value is 0x80 + RowBase[row] + col (the sum is below 0x80, so the
\* OR is an addition); two strobes and nothing else go out, the controller's
\* address counter ends at RowBase[row] + col, and no other (col, row)
\* gives the same command
C22_CursorAddress ==
  l_pc = "write" =>
    /\ b_kind = "byte"
    /\ b_rs = 0
    /\ RowBase[l_row + 1] + l_col < 128
    /\ b_val = 128 + RowBase[l_row + 1] + l_col
    /\ \A c \in 0 .. LCD_COLS - 1 : \A r \in Rows :
         <<c, r>> # <<l_col, l_row>> => set_cursor_cmd(c, r) # b_val
    /\ BusIdle =>
         /\ Len(bus_log) = 4
         /\ Len(Strobes(bus_log)) = 2
         /\ \A k \in 1 .. 2 : Bit(Strobes(bus_log)[k], MASK_RS) = 0
         /\ (Strobes(bus_log)[1] \div 16) * 16 + Strobes(bus_log)[2] \div 16
              = b_val
         /\ hd_ac = RowBase[l_row + 1] + l_col

\* the last column of the last row has been addressed
C22_Witness ==
  /\ l_pc = "write"
  /\ BusIdle
  /\ l_row = 3
  /\ l_col = LCD_COLS - 1
  /\ hd_ac = 95
\* C23: center(text, width) has exactly width characters; when text has
\* width characters or more they are the first width characters of text,
\* otherwise floor((width - len) / 2) spaces, then text, then spaces
C23_Center ==
  c_out # <<>> =>
    LET r == c_out[1]
        n == Len(c_text)
        pad == (c_width - n) \div 2
    IN  /\ Len(r) = c_width
        /\ \A k \in 1 .. c_width :
             SubSeq(r, k, k) =
               IF n >= c_width THEN SubSeq(c_text, k, k)
               ELSE IF k <= pad THEN " "
               ELSE IF k <= pad + n THEN SubSeq(c_text, k - pad, k - pad)
               ELSE " "

\* a text of two characters centred in five: one space before, two after
C23_Witness ==
  /\ c_text = "ab"
  /\ c_width = 5
  /\ c_out = <<" ab  ">>
\* the last-edge timestamp of channel ch
Stamp(ch) == IF ch = R THEN last_r ELSE last_edge[ch]

\* C24: a channel's last-edge timestamp changes only when an edge comes at
\* least DEBOUNCE_MS after it, and then becomes the time of that edge, so
\* accepted edges are at least DEBOUNCE_MS apart; an edge that comes sooner
\* is rejected and leaves the timestamp alone; an edge that comes
\* DEBOUNCE_MS or more after the last accepted one is accepted, whatever
\* was rejected in between
C24_Spacing ==
  [][ /\ \A c \in Buttons :
           last_edge'[c] # last_edge[c] =>
             /\ last_edge'[c] = now
             /\ now - last_edge[c] >= DEBOUNCE_MS
      /\ last_r' # last_r =>
           /\ last_r' = now
           /\ now - last_r >= DEBOUNCE_MS
      /\ edge' # edge =>
           LET ch == edge'.ch
               before == Stamp(ch)
               after == IF ch = R THEN last_r' ELSE last_edge'[ch]
           IN  /\ edge'.at = now
               /\ IF now - before >= DEBOUNCE_MS
                  THEN edge'.acc /\ after = now
                  ELSE ~edge'.acc /\ after = before
    ]_vars

\* the same for the toggle program, where an input at a standing clock is
\* an edge on a button
C24_ToggleSpacing ==
  [][ /\ \A c \in Buttons :
           last_edge'[c] # last_edge[c] =>
             /\ last_edge'[c] = now
             /\ now - last_edge[c] >= DEBOUNCE_MS
      /\ (inputs_left' # inputs_left /\ now' = now) =>
           \E c \in Buttons :
             IF now - last_edge[c] >= DEBOUNCE_MS
             THEN last_edge' = [last_edge EXCEPT ![c] = now]
                  /\ n_accept' = n_accept + 1
             ELSE last_edge' = last_edge /\ n_accept' = n_accept
    ]_vars

\* on the reset channel a bounce was rejected and the next edge, DEBOUNCE_MS
\* or more after the last accepted one, is accepted and stamped
C24_Witness ==
  /\ TwoEdges
  /\ edge.ch = R
  /\ edge.acc
  /\ ~edge.prev_acc
  /\ edge.since >= DEBOUNCE_MS
  /\ last_r = edge.at
\* C25: at the start of every iteration of the polling loop, while the
\* display answers, the display shows the READY screen exactly when the
\* round is open, and the winner screen of contestant w exactly when the
\* round is closed with winner w
C25_DisplayAgrees ==
  (pc = "L256" /\ i2c_ok) =>
    /\ (lcd = ReadyRows) <=> round_open
    /\ \A w \in Buttons :
         (lcd = WinnerRows(WinnerName(w))) <=> (~round_open /\ winner_idx = w)
\* the pin value of LED i that shows logical state on, under LED_ACTIVE_HIGH
PinFor(on) ==
  IF LED_ACTIVE_HIGH THEN (IF on THEN 1 ELSE 0) ELSE (IF on THEN 0 ELSE 1)

\* C26: in the toggle program the logical LED states change only at line
\* 141, for the press read at line 137: the state of LED idx is inverted
\* and every other state is kept; when _apply_leds has returned, and until
\* line 141 runs again, every LED pin shows its logical state
C26_ToggleFrame ==
  [][ /\ led_state' # led_state =>
           /\ t_pc = "T141"
           /\ t_idx \in Buttons
           /\ led_state'[t_idx] = ~led_state[t_idx]
           /\ \A i \in Buttons \ {t_idx} : led_state'[i] = led_state[i]
      /\ (t_pc = "T141" /\ t_pc' # "T141") => led_state' # led_state
      /\ t_pc' # "T142" =>
           \A i \in Buttons : leds'[i] = PinFor(led_state'[i])
    ]_vars

\* button 1 then button 2 have been processed: both LEDs are on, logically
\* and on the pins
C26_Witness ==
  /\ t_pc = "T145"
  /\ t_idx = 1
  /\ led_state[0]
  /\ led_state[1]
  /\ leds[0] = PinFor(TRUE)
  /\ leds[1] = PinFor(TRUE)
\* the display shows the last-pressed message of some button
ShowsLast == \E i \in Buttons : lcd = LastRows(ToggleName(i))

\* the loop is between reading a press and showing its message
Processing == t_pc \in {"T138", "T141", "T142", "T145"}

\* C27: once line 148 has run for a processed press the display shows a
\* last-pressed message, that of the press read last whenever no press is
\* being processed, until it goes READY; it goes READY only when
\* MSG_HOLD_MS or more have passed since line 148 ran last, so a press
\* processed before that restarts the hold; it goes READY once and stays
\* READY until the next press is shown; and while the loop keeps running
\* it does go READY
C27_MessageHold ==
  /\ []((proc_at # None /\ n_ready = 0) =>
          /\ ShowsLast
          /\ ~Processing => lcd = LastRows(ToggleName(t_idx)))
  /\ [](n_ready <= 1)
  /\ []((proc_at = None \/ n_ready = 1) =>
          (lcd = ReadyRows \/ t_pc \in {"T147", "T148"}))
  /\ [][(lcd' = ReadyRows /\ lcd # ReadyRows) =>
          /\ proc_at # None
          /\ now - proc_at >= MSG_HOLD_MS
          /\ n_ready = 0]_vars
  /\ (proc_at # None /\ n_ready = 0) ~> (n_ready = 1 /\ lcd = ReadyRows)

\* two presses were shown in one hold, the second restarting it, and the
\* display has gone READY once
C27_Witness ==
  /\ lcd = ReadyRows
  /\ n_ready = 1
  /\ holds = 2
  /\ now - proc_at >= MSG_HOLD_MS
  /\ t_pc = "T153"
  /\ showing_last
====
